---- MODULE Spec2Model ----
(***************************************************************************)
(* Admission validation of the VirtualMachine resource                     *)
(* (neonvm/apis/neonvm/v1/virtualmachine_webhook.go).                      *)
(*                                                                         *)
(* ValidateCreate, ValidateUpdate and ValidateDelete are pure functions of *)
(* the objects they are handed; they are the operators of the same name.   *)
(* Two specifications apply them:                                          *)
(*   Spec          the admission lifecycle of one object: a request is     *)
(*                 validated against the persisted object, and persisted   *)
(*                 only when the webhook returned no error;                *)
(*   SpecValidate  one validation call on arbitrary snapshots, the         *)
(*                 persisted one included (an object persisted before the  *)
(*                 swap rules existed need not satisfy them, which is the  *)
(*                 case lines 166-174 of the webhook are written for).     *)
(*                                                                         *)
(* Go values are encoded so that reflect.DeepEqual is TLA+ equality:       *)
(*   a pointer is <<>> (nil) or <<x>> (a pointer to x);                    *)
(*   a slice is <<>> (nil slice) or <<s>> (non-nil slice with elements s); *)
(*   an error is the string of its message, "" being the nil error.        *)
(***************************************************************************)
EXTENDS Integers, Sequences, FiniteSets, TLC

VARIABLES
    old,      \* the persisted object, a pointer: the `old` of ValidateUpdate
    r,        \* the object of the request being validated, a pointer: the receiver
    op,       \* "none" (no call made yet / no request pending), "create", "update", "delete"
    err,      \* the error the validation call returned
    mpOk,     \* the verdict of the memory-provider collaborator for the request's guest
    created   \* history: the min/max bounds the persisted object was created with

vars == <<old, r, op, err, mpOk, created>>

-----------------------------------------------------------------------------
(* Go values *)

Nil == <<>>
Ptr(x) == <<x>>
Deref(p) == p[1]

\* the elements a `for _, x := range slice` visits: none for a nil slice
Elems(slice) == IF slice = Nil THEN <<>> ELSE Deref(slice)

NilErr == ""

\* the panic of a nil pointer dereference, kept as a result so that it can be observed
PanicNilDeref == "panic: runtime error: invalid memory address or nil pointer dereference"

DeepEqual(a, b) == a = b

\* fmt's %v / %d of an integer
FormatV(n) == ToString(n)

-----------------------------------------------------------------------------
(* Collaborators of the webhook that live in the resource-description file *)

\* the error of line 115; the derivation's own error for the same conflict is taken
\* to carry the same message
ErrBothSwap == "cannot have both 'swap' and 'swapInfo' enabled"

\* GuestSettings.WithoutSwapFields: a copy with Swap and SwapInfo cleared
WithoutSwapFields(s) == [s EXCEPT !.swap = Nil, !.swapInfo = Nil]

\* GuestSettings.GetSwapInfo on the pointer p: the normalized swap descriptor, or an error.
\* It fails when the legacy and the structured field are both set; a legacy size
\* becomes a descriptor of that size with no options set.
GetSwapInfo(p) ==
    IF p = Nil THEN [info |-> Nil, err |-> PanicNilDeref]
    ELSE LET s == Deref(p) IN
         IF s.swap # Nil /\ s.swapInfo # Nil THEN [info |-> Nil, err |-> ErrBothSwap]
         ELSE IF s.swap # Nil
              THEN [info |-> Ptr([size |-> Deref(s.swap), skipSwapon |-> Nil]), err |-> NilErr]
              ELSE [info |-> s.swapInfo, err |-> NilErr]

\* Guest.ValidateForMemoryProvider: a black box to the webhook; `ok` is its verdict
ErrMemoryProvider == "memorySlotSize invalid for memoryProvider"
ValidateForMemoryProvider(guest, provider, ok) == IF ok THEN NilErr ELSE ErrMemoryProvider

-----------------------------------------------------------------------------
(* ValidateCreate *)

reservedDiskNames ==
    << "virtualmachineimages", "rootdisk", "runtime", "swapdisk", "sysfscgroup",
       "containerdsock", "ssh-privatekey", "ssh-publickey", "ssh-authorized-keys" >>

MaxDiskNameLen == 32

ReservedPortName == "qmp"

Contains(s, x) == \E i \in DOMAIN s : s[i] = x

Min(S) == CHOOSE x \in S : \A y \in S : x <= y

ErrUseBelowMin(prefix, field, use, min) ==
    prefix \o field \o ".use (" \o FormatV(use)
        \o ") should be greater than or equal to the " \o prefix \o field \o ".min ("
        \o FormatV(min) \o ")"

ErrUseAboveMax(prefix, field, use, max) ==
    prefix \o field \o ".use (" \o FormatV(use)
        \o ") should be less than or equal to the " \o prefix \o field \o ".max ("
        \o FormatV(max) \o ")"

\* RangeCheck with the bounds taken as exclusive
RangeCheck_Exclusive(prefix, field, x) ==
    IF x.use <= x.min THEN ErrUseBelowMin(prefix, field, x.use, x.min)
    ELSE IF x.use >= x.max THEN ErrUseAboveMax(prefix, field, x.use, x.max)
    ELSE NilErr

\* the use/min/max checks of one resource, first failure first
RangeCheck(prefix, field, x) ==
    IF x.use < x.min THEN ErrUseBelowMin(prefix, field, x.use, x.min)
    ELSE IF x.use > x.max THEN ErrUseAboveMax(prefix, field, x.use, x.max)
    ELSE NilErr

\* DiskError with the length limit off by one
DiskError_LenGE(name) ==
    IF Contains(reservedDiskNames, name)
    THEN "'" \o name \o "' is reserved for .spec.disks[].name"
    ELSE IF Len(name) >= MaxDiskNameLen
    THEN "disk name '" \o name \o "' too long, should be less than or equal to 32"
    ELSE NilErr

\* the error of the first disk the loop rejects, or nil
DiskError(name) ==
    IF Contains(reservedDiskNames, name)
    THEN "'" \o name \o "' is reserved for .spec.disks[].name"
    ELSE IF Len(name) > MaxDiskNameLen
    THEN "disk name '" \o name \o "' too long, should be less than or equal to 32"
    ELSE NilErr

DisksCheck(disks) ==
    LET ds == Elems(disks)
        bad == { i \in DOMAIN ds : DiskError(ds[i].name) # NilErr }
    IN IF bad = {} THEN NilErr ELSE DiskError(ds[Min(bad)].name)

ErrReservedPort == "'qmp' is reserved name for .spec.guest.ports[].name"

PortsCheck(ports) ==
    LET ps == Elems(ports) IN
    IF \E i \in DOMAIN ps : Len(ps[i].name) # 0 /\ ps[i].name = ReservedPortName
    THEN ErrReservedPort ELSE NilErr

\* SwapExclusiveCheck rejecting either swap field
SwapExclusiveCheck_Either(settings) ==
    IF settings # Nil /\ (Deref(settings).swap # Nil \/ Deref(settings).swapInfo # Nil)
    THEN ErrBothSwap ELSE NilErr

SwapExclusiveCheck(settings) ==
    IF settings # Nil /\ Deref(settings).swap # Nil /\ Deref(settings).swapInfo # Nil
    THEN ErrBothSwap ELSE NilErr

MemoryProviderCheck(v, ok) ==
    IF v.memoryProvider # Nil
       /\ ValidateForMemoryProvider(v, Deref(v.memoryProvider), ok) # NilErr
    THEN ".spec.guest: " \o ValidateForMemoryProvider(v, Deref(v.memoryProvider), ok)
    ELSE NilErr

\* the checks in the order of the code, the first failing one returning its error
ValidateCreate(v, ok) ==
    LET cpus == RangeCheck(".spec.guest", ".cpus", v.cpus)
        provider == MemoryProviderCheck(v, ok)
        memorySlots == RangeCheck(".spec.guest", ".memorySlots", v.memorySlots)
        disks == DisksCheck(v.disks)
        ports == PortsCheck(v.ports)
        swap == SwapExclusiveCheck(v.settings)
    IN IF cpus # NilErr THEN cpus
       ELSE IF provider # NilErr THEN provider
       ELSE IF memorySlots # NilErr THEN memorySlots
       ELSE IF disks # NilErr THEN disks
       ELSE IF ports # NilErr THEN ports
       ELSE swap

-----------------------------------------------------------------------------
(* ValidateUpdate *)

\* the table without the memoryProvider entry
immutableFields_NoMemoryProvider ==
    << ".spec.guest.cpus.min", ".spec.guest.cpus.max",
       ".spec.guest.memorySlots.min", ".spec.guest.memorySlots.max",
       ".spec.guest.ports", ".spec.guest.rootDisk",
       ".spec.guest.command", ".spec.guest.args", ".spec.guest.env",
       ".spec.guest.settings", ".spec.disks", ".spec.podResources",
       ".spec.enableAcceleration", ".spec.enableSSH", ".spec.initScript" >>

\* the table without the disks entry
immutableFields_NoDisks ==
    << ".spec.guest.cpus.min", ".spec.guest.cpus.max",
       ".spec.guest.memorySlots.min", ".spec.guest.memorySlots.max",
       ".spec.guest.memoryProvider", ".spec.guest.ports", ".spec.guest.rootDisk",
       ".spec.guest.command", ".spec.guest.args", ".spec.guest.env",
       ".spec.guest.settings", ".spec.podResources",
       ".spec.enableAcceleration", ".spec.enableSSH", ".spec.initScript" >>

immutableFields ==
    << ".spec.guest.cpus.min", ".spec.guest.cpus.max",
       ".spec.guest.memorySlots.min", ".spec.guest.memorySlots.max",
       ".spec.guest.memoryProvider", ".spec.guest.ports", ".spec.guest.rootDisk",
       ".spec.guest.command", ".spec.guest.args", ".spec.guest.env",
       ".spec.guest.settings", ".spec.disks", ".spec.podResources",
       ".spec.enableAcceleration", ".spec.enableSSH", ".spec.initScript" >>

getter(fieldName, v) ==
    CASE fieldName = ".spec.guest.cpus.min" -> v.cpus.min
      [] fieldName = ".spec.guest.cpus.max" -> v.cpus.max
      [] fieldName = ".spec.guest.memorySlots.min" -> v.memorySlots.min
      [] fieldName = ".spec.guest.memorySlots.max" -> v.memorySlots.max
      [] fieldName = ".spec.guest.memoryProvider" -> v.memoryProvider
      [] fieldName = ".spec.guest.ports" -> v.ports
      [] fieldName = ".spec.guest.rootDisk" -> v.rootDisk
      [] fieldName = ".spec.guest.command" -> v.command
      [] fieldName = ".spec.guest.args" -> v.args
      [] fieldName = ".spec.guest.env" -> v.env
      [] fieldName = ".spec.guest.settings" ->
            IF v.settings = Nil THEN v.settings
            ELSE Ptr(WithoutSwapFields(Deref(v.settings)))
      [] fieldName = ".spec.disks" -> v.disks
      [] fieldName = ".spec.podResources" -> v.podResources
      [] fieldName = ".spec.enableAcceleration" -> v.enableAcceleration
      [] fieldName = ".spec.enableSSH" -> v.enableSSH
      [] fieldName = ".spec.initScript" -> v.initScript

ErrImmutable(fieldName) == fieldName \o " is immutable"

\* the loop over immutableFields: the error of the first field that differs, or nil
ImmutableCheck(v, before) ==
    LET changed == { i \in DOMAIN immutableFields :
                        ~DeepEqual(getter(immutableFields[i], v),
                                   getter(immutableFields[i], before)) }
    IN IF changed = {} THEN NilErr ELSE ErrImmutable(immutableFields[Min(changed)])

ErrSwapImmutable == ".spec.guest.settings.{swap,swapInfo} is immutable"

\* SwapCheck without the comparison of the two descriptors
SwapCheck_NoCompare(v, before) ==
    IF v.settings = Nil THEN NilErr
    ELSE LET new == GetSwapInfo(v.settings) IN
         IF new.err # NilErr THEN new.err
         ELSE LET prev == GetSwapInfo(before.settings) IN
              IF prev.err = PanicNilDeref THEN PanicNilDeref ELSE NilErr

\* SwapCheck returning the old side's error too
SwapCheck_PropagateOld(v, before) ==
    IF v.settings = Nil THEN NilErr
    ELSE LET new == GetSwapInfo(v.settings) IN
         IF new.err # NilErr THEN new.err
         ELSE LET prev == GetSwapInfo(before.settings) IN
              IF prev.err # NilErr THEN prev.err
              ELSE IF ~DeepEqual(new.info, prev.info) THEN ErrSwapImmutable
              ELSE NilErr

\* SwapCheck deriving the old side first and letting its failure pass the update
SwapCheck_OldFirst(v, before) ==
    IF v.settings = Nil THEN NilErr
    ELSE LET prev == GetSwapInfo(before.settings) IN
         IF prev.err = PanicNilDeref THEN PanicNilDeref
         ELSE IF prev.err # NilErr THEN NilErr
         ELSE LET new == GetSwapInfo(v.settings) IN
              IF new.err # NilErr THEN new.err
              ELSE IF ~DeepEqual(new.info, prev.info) THEN ErrSwapImmutable
              ELSE NilErr

\* SwapCheck comparing the new descriptor with the old SwapInfo field as stored
SwapCheck_RawOld(v, before) ==
    IF v.settings = Nil THEN NilErr
    ELSE LET new == GetSwapInfo(v.settings) IN
         IF new.err # NilErr THEN new.err
         ELSE LET prev == GetSwapInfo(before.settings) IN
              IF prev.err = PanicNilDeref THEN PanicNilDeref
              ELSE IF prev.err # NilErr THEN NilErr
              ELSE IF ~DeepEqual(new.info, Deref(before.settings).swapInfo)
                   THEN ErrSwapImmutable
              ELSE NilErr

\* the swap block: the new side's error is returned, the old side's error is
\* swallowed, and two descriptors must be equal
SwapCheck(v, before) ==
    IF v.settings = Nil THEN NilErr
    ELSE LET new == GetSwapInfo(v.settings) IN
         IF new.err # NilErr THEN new.err
         ELSE LET prev == GetSwapInfo(before.settings) IN
              IF prev.err = PanicNilDeref THEN PanicNilDeref
              ELSE IF prev.err # NilErr THEN NilErr
              ELSE IF ~DeepEqual(new.info, prev.info) THEN ErrSwapImmutable
              ELSE NilErr

\* ValidateUpdate without the use checks
ValidateUpdate_NoRange(v, before) ==
    LET immutable == ImmutableCheck(v, before)
        swap == SwapCheck(v, before)
    IN IF immutable # NilErr THEN immutable ELSE swap

ValidateUpdate(v, before) ==
    LET immutable == ImmutableCheck(v, before)
        swap == SwapCheck(v, before)
        cpus == RangeCheck("", ".cpus", v.cpus)
        memorySlots == RangeCheck("", ".memorySlots", v.memorySlots)
    IN IF immutable # NilErr THEN immutable
       ELSE IF swap # NilErr THEN swap
       ELSE IF cpus # NilErr THEN cpus
       ELSE memorySlots

(* ValidateDelete *)
ValidateDelete(v) == NilErr

-----------------------------------------------------------------------------
(* The objects the calls are made with *)

MaxCount == 3      \* cpus and memorySlots counts range over 0..MaxCount
MaxChanged == 1    \* how many fields of BaseVM an object of a request differs in

Name32 == "abcdefghijklmnopqrstuvwxyz012345"
Name33 == "abcdefghijklmnopqrstuvwxyz0123456"

Disk(name) == [name |-> name]
Port(name) == [name |-> name]
SwapInfo(size, skipSwapon) == Ptr([size |-> size, skipSwapon |-> skipSwapon])
Settings(sysctl, swap, swapInfo) ==
    Ptr([sysctl |-> sysctl, swap |-> swap, swapInfo |-> swapInfo])

BaseVM ==
    [ cpus |-> [min |-> 1, use |-> 1, max |-> 2],
      memorySlots |-> [min |-> 1, use |-> 1, max |-> 2],
      memoryProvider |-> Nil,
      ports |-> Ptr(<<Port("qmp2")>>),
      rootDisk |-> "image:a",
      command |-> Nil,
      args |-> Nil,
      env |-> Nil,
      settings |-> Settings(Nil, Nil, SwapInfo(1, Nil)),
      disks |-> Ptr(<<Disk("data")>>),
      podResources |-> "requests:a",
      enableAcceleration |-> Ptr(TRUE),
      enableSSH |-> Ptr(TRUE),
      initScript |-> "" ]

FieldNames ==
    { "cpus.min", "cpus.use", "cpus.max",
      "memorySlots.min", "memorySlots.use", "memorySlots.max",
      "memoryProvider", "ports", "rootDisk", "command", "args", "env", "settings",
      "disks", "podResources", "enableAcceleration", "enableSSH", "initScript" }

\* the values a request may give a field
FieldValues(f) ==
    CASE f \in {"cpus.min", "memorySlots.min"} -> 1 .. (MaxCount - 1)
      [] f \in {"cpus.max", "memorySlots.max"} -> 2 .. MaxCount
      [] f \in {"cpus.use", "memorySlots.use"} -> 0 .. MaxCount
      [] f = "memoryProvider" -> { Nil, Ptr("DIMMSlots"), Ptr("VirtioMem") }
      [] f = "ports" ->
            { Nil, Ptr(<<>>), Ptr(<<Port("qmp2")>>), Ptr(<<Port("qmp")>>),
              Ptr(<<Port("qmp2"), Port("qmp")>>) }
      [] f = "rootDisk" -> { "image:a", "image:b" }
      [] f \in {"command", "args", "env"} -> { Nil, Ptr(<<"x">>) }
      [] f = "settings" ->
            { Nil,
              Settings(Nil, Nil, Nil),
              Settings(Nil, Ptr(1), Nil),
              Settings(Nil, Nil, SwapInfo(1, Nil)),
              Settings(Nil, Nil, SwapInfo(2, Nil)),
              Settings(Nil, Nil, SwapInfo(1, Ptr(TRUE))),
              Settings(Nil, Ptr(1), SwapInfo(1, Nil)),
              Settings(Nil, Ptr(1), SwapInfo(2, Nil)),
              Settings(Ptr(<<"vm.swappiness=10">>), Nil, SwapInfo(1, Nil)) }
      [] f = "disks" ->
            { Nil, Ptr(<<Disk("data")>>), Ptr(<<Disk("data"), Disk("rootdisk")>>),
              Ptr(<<Disk(Name32)>>), Ptr(<<Disk(Name33)>>) }
            \cup { Ptr(<<Disk(reservedDiskNames[i])>>) : i \in DOMAIN reservedDiskNames }
      [] f = "podResources" -> { "requests:a", "requests:b" }
      [] f \in {"enableAcceleration", "enableSSH"} -> { Ptr(TRUE), Ptr(FALSE) }
      [] f = "initScript" -> { "", "init.sh" }

SetField(v, f, x) ==
    CASE f = "cpus.min" -> [v EXCEPT !.cpus.min = x]
      [] f = "cpus.use" -> [v EXCEPT !.cpus.use = x]
      [] f = "cpus.max" -> [v EXCEPT !.cpus.max = x]
      [] f = "memorySlots.min" -> [v EXCEPT !.memorySlots.min = x]
      [] f = "memorySlots.use" -> [v EXCEPT !.memorySlots.use = x]
      [] f = "memorySlots.max" -> [v EXCEPT !.memorySlots.max = x]
      [] f = "memoryProvider" -> [v EXCEPT !.memoryProvider = x]
      [] f = "ports" -> [v EXCEPT !.ports = x]
      [] f = "rootDisk" -> [v EXCEPT !.rootDisk = x]
      [] f = "command" -> [v EXCEPT !.command = x]
      [] f = "args" -> [v EXCEPT !.args = x]
      [] f = "env" -> [v EXCEPT !.env = x]
      [] f = "settings" -> [v EXCEPT !.settings = x]
      [] f = "disks" -> [v EXCEPT !.disks = x]
      [] f = "podResources" -> [v EXCEPT !.podResources = x]
      [] f = "enableAcceleration" -> [v EXCEPT !.enableAcceleration = x]
      [] f = "enableSSH" -> [v EXCEPT !.enableSSH = x]
      [] f = "initScript" -> [v EXCEPT !.initScript = x]

\* the single-field edits <<field, value>>
Changes == UNION { { <<f, x>> : x \in FieldValues(f) } : f \in FieldNames }

\* the objects that differ from one of S in at most k fields
RECURSIVE Vary(_, _)
Vary(S, k) ==
    IF k = 0 THEN S
    ELSE LET T == { SetField(v, c[1], c[2]) : v \in S, c \in Changes } IN Vary(T, k - 1)

\* what a create request may carry, and what an update request or a persisted
\* object may be
CreateInputs == Vary({BaseVM}, MaxChanged + 1)
Snapshots == Vary({BaseVM}, MaxChanged)

Bounds(v) == [ cpus |-> [min |-> v.cpus.min, max |-> v.cpus.max],
               memorySlots |-> [min |-> v.memorySlots.min, max |-> v.memorySlots.max] ]

-----------------------------------------------------------------------------
(* SpecValidate: one call of a validator on given snapshots *)

InitValidate ==
    /\ op = "none"
    /\ err = NilErr
    /\ created = Nil
    /\ \/ old = Nil /\ r \in { Ptr(v) : v \in CreateInputs } /\ mpOk \in BOOLEAN
       \/ /\ old \in { Ptr(v) : v \in Snapshots }
          /\ r \in { Ptr(v) : v \in Snapshots }
          /\ mpOk = TRUE

CallValidateCreate ==
    /\ op = "none" /\ old = Nil
    /\ err' = ValidateCreate(Deref(r), mpOk)
    /\ op' = "create"
    /\ UNCHANGED <<old, r, mpOk, created>>

CallValidateUpdate ==
    /\ op = "none" /\ old # Nil
    /\ err' = ValidateUpdate(Deref(r), Deref(old))
    /\ op' = "update"
    /\ UNCHANGED <<old, r, mpOk, created>>

NextValidate == CallValidateCreate \/ CallValidateUpdate

SpecValidate == InitValidate /\ [][NextValidate]_vars

-----------------------------------------------------------------------------
(* Spec: the admission lifecycle of one object *)

Init ==
    /\ old = Nil
    /\ r = Nil
    /\ op = "none"
    /\ err = NilErr
    /\ mpOk = TRUE
    /\ created = Nil

\* a create request arrives and is validated
CreateRequest ==
    /\ op = "none" /\ old = Nil
    /\ \E v \in Snapshots, ok \in BOOLEAN :
          /\ r' = Ptr(v)
          /\ mpOk' = ok
          /\ err' = ValidateCreate(v, ok)
    /\ op' = "create"
    /\ UNCHANGED <<old, created>>

\* an update request arrives and is validated against the persisted object
UpdateRequest ==
    /\ op = "none" /\ old # Nil
    /\ \E v \in Vary({Deref(old)}, MaxChanged) :
          /\ r' = Ptr(v)
          /\ err' = ValidateUpdate(v, Deref(old))
    /\ op' = "update"
    /\ UNCHANGED <<old, mpOk, created>>

\* a delete request arrives and is validated
DeleteRequest ==
    /\ op = "none" /\ old # Nil
    /\ r' = old
    /\ err' = ValidateDelete(Deref(old))
    /\ op' = "delete"
    /\ UNCHANGED <<old, mpOk, created>>

\* the request is answered: persisted when the webhook returned no error
Admit ==
    /\ op # "none" /\ err = NilErr
    /\ old' = IF op = "delete" THEN Nil ELSE r
    /\ created' = CASE op = "create" -> Ptr(Bounds(Deref(r)))
                    [] op = "update" -> created
                    [] op = "delete" -> Nil
    /\ r' = Nil /\ op' = "none" /\ err' = NilErr /\ mpOk' = TRUE

\* the request is answered: refused with the webhook's error
Deny ==
    /\ op # "none" /\ err # NilErr
    /\ r' = Nil /\ op' = "none" /\ err' = NilErr /\ mpOk' = TRUE
    /\ UNCHANGED <<old, created>>

Next == CreateRequest \/ UpdateRequest \/ DeleteRequest \/ Admit \/ Deny

Spec == Init /\ [][Next]_vars

-----------------------------------------------------------------------------
(* The contract, stated on the objects and the error of the call just made *)

TypeOK == op \in {"none", "create", "update", "delete"}

New == Deref(r)
Before == Deref(old)

InRange(x) == x.min <= x.use /\ x.use <= x.max

\* the paths of the protected fields, in the order of the table
ProtectedPaths ==
    << ".spec.guest.cpus.min", ".spec.guest.cpus.max",
       ".spec.guest.memorySlots.min", ".spec.guest.memorySlots.max",
       ".spec.guest.memoryProvider", ".spec.guest.ports", ".spec.guest.rootDisk",
       ".spec.guest.command", ".spec.guest.args", ".spec.guest.env",
       ".spec.guest.settings", ".spec.disks", ".spec.podResources",
       ".spec.enableAcceleration", ".spec.enableSSH", ".spec.initScript" >>

\* settings with the swap sub-fields stripped
StrippedSettings(v) ==
    IF v.settings = Nil THEN Nil
    ELSE Ptr([sysctl |-> Deref(v.settings).sysctl, swap |-> Nil, swapInfo |-> Nil])

\* the values of the protected fields of v, in the same order
Protected(v) ==
    << v.cpus.min, v.cpus.max, v.memorySlots.min, v.memorySlots.max,
       v.memoryProvider, v.ports, v.rootDisk, v.command, v.args, v.env,
       StrippedSettings(v), v.disks, v.podResources, v.enableAcceleration,
       v.enableSSH, v.initScript >>

ProtectedDiffer(v, w) ==
    LET pv == Protected(v)
        pw == Protected(w)
    IN { i \in DOMAIN ProtectedPaths : pv[i] # pw[i] }

ProtectedEqual(v, w) == ProtectedDiffer(v, w) = {}

IsImmutableFieldError(e) ==
    \E i \in DOMAIN ProtectedPaths : e = ProtectedPaths[i] \o " is immutable"

Derives(settings) == settings # Nil /\ GetSwapInfo(settings).err = NilErr
FailsToDerive(settings) == settings # Nil /\ GetSwapInfo(settings).err # NilErr
Descriptor(settings) == GetSwapInfo(settings).info

C2_Original ==
    (op = "update" /\ New.settings # Nil /\ Derives(New.settings)
        /\ Derives(Before.settings)) =>
        IF DeepEqual(Descriptor(New.settings), Descriptor(Before.settings))
        THEN TRUE
        ELSE err = ErrSwapImmutable

\* C2 as amended: with new settings set and both descriptors derived, the update
\* is accepted only if the descriptors are equal; when they differ it is rejected,
\* with the swap-immutable error if no protected field differs (a differing
\* protected field is reported first).
C2_SwapImmutableBetweenValid ==
    (op = "update" /\ New.settings # Nil /\ Derives(New.settings)
        /\ Derives(Before.settings)) =>
        /\ err = NilErr =>
              DeepEqual(Descriptor(New.settings), Descriptor(Before.settings))
        /\ (~DeepEqual(Descriptor(New.settings), Descriptor(Before.settings))
              /\ ProtectedEqual(New, Before)) => err = ErrSwapImmutable

\* an update between two valid, different swap descriptors, nothing else changed
C2_Witness ==
    /\ op = "update"
    /\ ProtectedEqual(New, Before)
    /\ Derives(New.settings) /\ Derives(Before.settings)
    /\ Descriptor(New.settings) # Descriptor(Before.settings)
    /\ err = ErrSwapImmutable

\* C3: swap self-healing: with the protected fields equal and the new use values
\* in range, an update from settings whose descriptor cannot be derived to
\* settings whose descriptor can is accepted.
C3_SwapSelfHealing ==
    (op = "update" /\ ProtectedEqual(New, Before)
        /\ InRange(New.cpus) /\ InRange(New.memorySlots)
        /\ FailsToDerive(Before.settings) /\ Derives(New.settings)) =>
        err = NilErr

\* a broken object (both swap fields set) was repaired
C3_Witness ==
    /\ op = "update"
    /\ Before.settings # Nil /\ New.settings # Nil
    /\ Deref(Before.settings).swap # Nil /\ Deref(Before.settings).swapInfo # Nil
    /\ Deref(New.settings).swap = Nil /\ Deref(New.settings).swapInfo # Nil
    /\ err = NilErr

\* C4: once the table has passed and the new settings are set, a failing
\* derivation on the new side is returned whatever the old side derives to, and
\* the old settings are then set too, so that no nil settings are dereferenced.
C4_NewSwapErrorPropagates ==
    (op = "update" /\ ProtectedEqual(New, Before) /\ New.settings # Nil) =>
        /\ Before.settings # Nil
        /\ err # PanicNilDeref
        /\ FailsToDerive(New.settings) => err = GetSwapInfo(New.settings).err

\* an update from an invalid swap state to a different, still invalid one
C4_Witness ==
    /\ op = "update"
    /\ ProtectedEqual(New, Before)
    /\ FailsToDerive(Before.settings) /\ FailsToDerive(New.settings)
    /\ New.settings # Before.settings
    /\ err = ErrBothSwap

\* C9: validating an object against itself passes every immutability check: the
\* result is neither a "<path> is immutable" error nor the swap-immutable error,
\* and a rejection comes from a range violation or a failing derivation of the
\* object's own swap descriptor.
C9_SelfUpdatePassesImmutability ==
    (op = "update" /\ r = old) =>
        /\ ~IsImmutableFieldError(err)
        /\ err # ErrSwapImmutable
        /\ err # NilErr =>
              \/ ~InRange(New.cpus)
              \/ ~InRange(New.memorySlots)
              \/ FailsToDerive(New.settings)

\* an object with the legacy swap field validated against itself and accepted
C9_Witness ==
    /\ op = "update"
    /\ r = old
    /\ New.settings # Nil /\ Deref(New.settings).swap # Nil
    /\ err = NilErr

-----------------------------------------------------------------------------
(* The create rules, stated on the object *)

ReservedTokens ==
    { "virtualmachineimages", "rootdisk", "runtime", "swapdisk", "sysfscgroup",
      "containerdsock", "ssh-privatekey", "ssh-publickey", "ssh-authorized-keys" }

DiskNames(v) == { Elems(v.disks)[i].name : i \in DOMAIN Elems(v.disks) }
PortNames(v) == { Elems(v.ports)[i].name : i \in DOMAIN Elems(v.ports) }

DiskNamesOK(v) == \A n \in DiskNames(v) : n \notin ReservedTokens /\ Len(n) <= 32
PortNamesOK(v) == "qmp" \notin PortNames(v)
BothSwapSet(v) ==
    v.settings # Nil /\ Deref(v.settings).swap # Nil /\ Deref(v.settings).swapInfo # Nil
ProviderOK(v, ok) == v.memoryProvider = Nil \/ ok

\* C5: the range check is inclusive on both bounds: a create is rejected whenever
\* cpus.use or memorySlots.use lies outside its [min, max], with the range error
\* of cpus when cpus is the one out of range, and an object that passes the other
\* create checks is accepted whenever both use values lie within [min, max], the
\* bounds themselves included.
C5_RangeOnCreate ==
    op = "create" =>
        /\ (~InRange(New.cpus) \/ ~InRange(New.memorySlots)) => err # NilErr
        /\ New.cpus.use < New.cpus.min =>
              err = ".spec.guest.cpus.use (" \o ToString(New.cpus.use)
                      \o ") should be greater than or equal to the .spec.guest.cpus.min ("
                      \o ToString(New.cpus.min) \o ")"
        /\ (New.cpus.use >= New.cpus.min /\ New.cpus.use > New.cpus.max) =>
              err = ".spec.guest.cpus.use (" \o ToString(New.cpus.use)
                      \o ") should be less than or equal to the .spec.guest.cpus.max ("
                      \o ToString(New.cpus.max) \o ")"
        /\ (InRange(New.cpus) /\ InRange(New.memorySlots) /\ ProviderOK(New, mpOk)
              /\ DiskNamesOK(New) /\ PortNamesOK(New) /\ ~BothSwapSet(New)) =>
              err = NilErr

\* an object with cpus.use = cpus.max > cpus.min and memorySlots.use = memorySlots.min
\* was accepted
C5_Witness ==
    /\ op = "create"
    /\ New.cpus.use = New.cpus.max /\ New.cpus.min < New.cpus.max
    /\ New.memorySlots.use = New.memorySlots.min
    /\ err = NilErr

\* C6: a create is rejected whenever some disk is named by a reserved token or
\* by more than 32 characters, or some port is named qmp, whatever the other
\* fields are; a 32-character disk name that is not reserved and a port named
\* qmp2 are accepted on an object that passes the other checks.
C6_ReservedNamesOnCreate ==
    op = "create" =>
        /\ (~DiskNamesOK(New) \/ ~PortNamesOK(New)) => err # NilErr
        /\ (DiskNames(New) \subseteq {Name32, "data"} /\ PortNames(New) \subseteq {"qmp2"}
              /\ InRange(New.cpus) /\ InRange(New.memorySlots)
              /\ ProviderOK(New, mpOk) /\ ~BothSwapSet(New)) => err = NilErr

\* an object with a 32-character disk name and a port named qmp2 was accepted
C6_Witness ==
    /\ op = "create"
    /\ DiskNames(New) = {Name32} /\ PortNames(New) = {"qmp2"}
    /\ err = NilErr

\* C7: a create is rejected whenever Swap and SwapInfo are both set, and an
\* object that passes the other checks is accepted with nil settings or with at
\* most one of the two set.
C7_SwapExclusiveOnCreate ==
    op = "create" =>
        /\ BothSwapSet(New) => err # NilErr
        /\ (~BothSwapSet(New) /\ InRange(New.cpus) /\ InRange(New.memorySlots)
              /\ ProviderOK(New, mpOk) /\ DiskNamesOK(New) /\ PortNamesOK(New)) =>
              err = NilErr

\* an object with only the legacy Swap field set was accepted
C7_Witness ==
    /\ op = "create"
    /\ New.settings # Nil
    /\ Deref(New.settings).swap # Nil /\ Deref(New.settings).swapInfo = Nil
    /\ err = NilErr

-----------------------------------------------------------------------------
(* The admission lifecycle *)

C10_AdmittedKeepsCreateRules ==
    /\ op = "delete" => err = NilErr
    /\ old # Nil =>
          /\ InRange(Before.cpus) /\ InRange(Before.memorySlots)
          /\ created = Ptr([ cpus |-> [min |-> Before.cpus.min, max |-> Before.cpus.max],
                             memorySlots |-> [min |-> Before.memorySlots.min,
                                              max |-> Before.memorySlots.max] ])
          /\ DiskNamesOK(Before)
          /\ PortNamesOK(Before)
          /\ ~BothSwapSet(Before)

\* a persisted object that an accepted update has changed: its swap went from
\* SwapInfo to the legacy field and its cpus.use was raised
C10_Witness ==
    /\ op = "none" /\ old # Nil
    /\ Before.cpus.use # BaseVM.cpus.use
    /\ Before.settings # Nil /\ Deref(Before.settings).swap # Nil

====
